---- MODULE Spec2Model ----
(***************************************************************************)
(* Model of zeek_halfduplex_analyzer.py: one batch run of main() over one   *)
(* connection log.  The run is cut into the steps of main(), in order; the  *)
(* only nondeterminism is the content of the input file.                    *)
(*                                                                          *)
(* Text is a sequence of one-character strings, so that lstrip, split,      *)
(* isupper/islower, str() of a port and the lexicographic comparison of     *)
(* identifiers are computed character by character as Python computes them. *)
(***************************************************************************)
EXTENDS Integers, Sequences, FiniteSets, TLC

\* Largest number of lines after the eight header lines of the input file.
MaxRows == 3

(***************************************************************************)
(* Characters and text                                                      *)
(***************************************************************************)

\* Code points of the characters that occur in the modelled inputs.
Ord ==
    ("#" :> 35) @@ ("-" :> 45) @@ ("." :> 46) @@ ("/" :> 47) @@
    ("0" :> 48) @@ ("1" :> 49) @@ ("2" :> 50) @@ ("3" :> 51) @@ ("4" :> 52) @@
    ("5" :> 53) @@ ("6" :> 54) @@ ("7" :> 55) @@ ("8" :> 56) @@ ("9" :> 57) @@
    ("<" :> 60) @@ (">" :> 62) @@
    ("A" :> 65) @@ ("D" :> 68) @@ ("F" :> 70) @@ ("N" :> 78) @@ ("S" :> 83) @@
    ("T" :> 84) @@ ("^" :> 94) @@
    ("a" :> 97) @@ ("b" :> 98) @@ ("c" :> 99) @@ ("d" :> 100) @@ ("e" :> 101) @@
    ("h" :> 104) @@ ("l" :> 108) @@ ("o" :> 111) @@ ("p" :> 112) @@
    ("s" :> 115) @@ ("t" :> 116) @@ ("u" :> 117) @@ ("w" :> 119)

\* A missing value (pandas NaN / NA), as na_values=['-'] produces it.
NaN == <<"NaN">>

isna(v) == v = NaN

\* The missing value of a nullable integer column (pd.NA in an Int64 array),
\* kept apart from every port and count, which are not negative.
NA == -1

IsUpperChar(c) == Ord[c] \in 65..90

IsLowerChar(c) == Ord[c] \in 97..122

IsDigitChar(c) == Ord[c] \in 48..57

\* str.isupper(): at least one cased character and no lowercase one.
isupper(s) ==
    /\ \E i \in 1..Len(s) : IsUpperChar(s[i])
    /\ \A i \in 1..Len(s) : ~IsLowerChar(s[i])

\* str.islower(): at least one cased character and no uppercase one.
islower(s) ==
    /\ \E i \in 1..Len(s) : IsLowerChar(s[i])
    /\ \A i \in 1..Len(s) : ~IsUpperChar(s[i])

\* Faulty variant of lstrip: at most one leading character is removed.
lstrip_one(s, c) ==
    IF Len(s) > 0 /\ s[1] = c THEN Tail(s) ELSE s

\* str.lstrip(chars) for a one-character set: every leading occurrence goes.
RECURSIVE lstrip(_, _)
lstrip(s, c) ==
    IF Len(s) > 0 /\ s[1] = c THEN lstrip(Tail(s), c) ELSE s

\* Python's < on str: by code point, a proper prefix sorts first.
RECURSIVE StrLess(_, _)
StrLess(s, t) ==
    IF Len(t) = 0 THEN FALSE
    ELSE IF Len(s) = 0 THEN TRUE
    ELSE IF s[1] # t[1] THEN Ord[s[1]] < Ord[t[1]]
    ELSE StrLess(Tail(s), Tail(t))

\* str.split(sep) for a one-character separator: the fields between separators.
RECURSIVE split(_, _)
split(s, sep) ==
    IF \A i \in 1..Len(s) : s[i] # sep THEN <<s>>
    ELSE LET k == CHOOSE i \in 1..Len(s) :
                      s[i] = sep /\ \A j \in 1..(i - 1) : s[j] # sep
         IN  <<SubSeq(s, 1, k - 1)>> \o split(SubSeq(s, k + 1, Len(s)), sep)

\* Decimal text of a natural number, as str() of an Int64 value.
RECURSIVE NatToStr(_)
NatToStr(n) ==
    LET digit == <<"0", "1", "2", "3", "4", "5", "6", "7", "8", "9">>[(n % 10) + 1]
    IN  IF n < 10 THEN <<digit>> ELSE NatToStr(n \div 10) \o <<digit>>

\* str() of a port cell: pd.NA prints as <NA>.
str(v) == IF v = NA THEN <<"<", "N", "A", ">">> ELSE NatToStr(v)

IsNumeric(s) == Len(s) > 0 /\ \A i \in 1..Len(s) : IsDigitChar(s[i])

\* The integer a run of decimal digits denotes (leading zeros dropped).
RECURSIVE to_int(_)
to_int(s) ==
    IF Len(s) = 0 THEN 0
    ELSE 10 * to_int(SubSeq(s, 1, Len(s) - 1)) + (Ord[s[Len(s)]] - 48)

\* The value of a local variable of main() that is not yet bound.
None == "None"

Range(s) == {s[i] : i \in 1..Len(s)}

Min(a, b) == IF a < b THEN a ELSE b

(***************************************************************************)
(* The input file                                                           *)
(***************************************************************************)

\* The fields of the '#fields' line of the modelled logs, in file order.
FieldNames ==
    <<"id.orig_h", "id.orig_p", "id.resp_h", "id.resp_p", "proto", "history",
      "local_orig", "local_resp", "peer">>

\* The '#types' line that declares one type for each of FieldNames.
FieldTypes ==
    <<"addr", "port", "addr", "port", "enum", "string", "bool", "bool", "string">>

\* The header lines a modelled file can carry: the matching pair, a '#types'
\* line one token short, one token long, one with a type the table lacks, and
\* a file without any '#fields' line.
Headers ==
    { [fields |-> TRUE,  names |-> FieldNames, types |-> FieldTypes],
      [fields |-> TRUE,  names |-> FieldNames, types |-> SubSeq(FieldTypes, 1, 8)],
      [fields |-> TRUE,  names |-> FieldNames, types |-> FieldTypes \o <<"count">>],
      [fields |-> TRUE,  names |-> FieldNames,
       types |-> SubSeq(FieldTypes, 1, 8) \o <<"vector[string]">>],
      [fields |-> FALSE, names |-> <<>>, types |-> <<>>] }

HostA == <<"1", "0", ".", "0", ".", "0", ".", "1">>

HostB == <<"1", "0", ".", "0", ".", "0", ".", "2">>

Port80 == <<"8", "0">>

Port1111 == <<"1", "1", "1", "1">>

Tcp == <<"t", "c", "p">>

Udp == <<"u", "d", "p">>

Dash == <<"-">>

PeerA1 == <<"w", "-", "a", "-", "1">>

PeerA2 == <<"w", "-", "a", "-", "2">>

PeerB1 == <<"w", "-", "b", "-", "1">>

PeerB2 == <<"w", "-", "b", "-", "2">>

\* The lines a modelled file is made of, each a sequence of whitespace-separated
\* tokens: a flow, its mirror leg, a flow whose two endpoints coincide, the
\* history shapes the funnel tells apart, the protocol and locality values, the
\* peer shapes, and a comment line.
LineTemplates ==
    << <<HostA, Port1111, HostB, Port80, Tcp, <<"S", "A">>, <<"T">>, <<"T">>, PeerA1>>,
       <<HostB, Port80, HostA, Port1111, Tcp, <<"s", "a">>, <<"T">>, <<"T">>, PeerB2>>,
       <<HostA, Port80, HostA, Port80, Tcp, <<"S", "A">>, <<"T">>, <<"T">>, PeerA2>>,
       <<HostA, Port1111, HostB, Port80, Tcp, <<"^", "h", "a">>, <<"T">>, <<"T">>, PeerB1>>,
       <<HostB, Port80, HostA, Port1111, Tcp, <<"^", "^", "S", "D">>, <<"T">>, <<"T">>, PeerA1>>,
       <<HostA, Port1111, HostB, Port80, Tcp, <<"S", "h">>, <<"T">>, <<"T">>, PeerA1>>,
       <<HostA, Port1111, HostB, Port80, Tcp, <<"^", "^", "S">>, <<"T">>, <<"T">>, PeerA1>>,
       <<HostA, Port1111, HostB, Port80, Tcp, Dash, <<"T">>, <<"T">>, PeerA1>>,
       <<HostA, Port1111, HostB, Port80, Udp, <<"D", "d">>, <<"T">>, <<"T">>, PeerA1>>,
       <<HostA, Port1111, HostB, Port80, Tcp, <<"S", "A">>, <<"T">>, <<"F">>, PeerA1>>,
       <<HostA, Port1111, HostB, Port80, Tcp, <<"S", "A">>, Dash, <<"T">>, PeerA1>>,
       <<HostA, Port1111, HostB, Port80, Tcp, <<"S", "A">>, <<"T">>, <<"T">>, <<"w", "-", "a">>>>,
       <<HostA, Port1111, HostB, Port80, Tcp, <<"S", "A">>, <<"T">>, <<"T">>,
         <<"w", "-", "a", "-", "0", "1">>>>,
       << <<"#", "c", "l", "o", "s", "e">> >> >>

\* The line sequences of at most MaxRows lines.  The report's counts do not
\* depend on the order of the lines, so one order stands for each multiset.
LineChoices ==
    LET idx == UNION {[1..n -> 1..Len(LineTemplates)] : n \in 0..MaxRows}
    IN  {[i \in DOMAIN c |-> LineTemplates[c[i]]] :
            c \in {d \in idx : \A i \in 1..(Len(d) - 1) : d[i] <= d[i + 1]}}

(***************************************************************************)
(* State                                                                    *)
(***************************************************************************)

VARIABLES
    pc,                   \* the step of main() that runs next
    error,                \* the exception that ended the run, or None
    stdout,               \* the print() calls made so far
    input_file,           \* the content of the file named on the command line
    col_names, col_types, converted_col_types,
    df,
    total_lines, tcp_lines, analyzed_lines, halfduplex_lines,
    lowercase_lines, uppercase_lines,
    hist_types, pair_counts,
    nics_df, num_nics, num_procs,
    merged_df

vars ==
    <<pc, error, stdout, input_file, col_names, col_types, converted_col_types,
      df, total_lines, tcp_lines, analyzed_lines, halfduplex_lines,
      lowercase_lines, uppercase_lines, hist_types, pair_counts, nics_df,
      num_nics, num_procs, merged_df>>

\* The steps of main() in program order.
Steps ==
    <<"schema", "load", "tcp", "local", "strip", "length", "halfduplex", "split",
      "rank", "crosstab", "tables", "pair", "done">>

StepIndex(p) == CHOOSE i \in 1..Len(Steps) : Steps[i] = p

\* Step p has run to its end without raising.
Passed(p) == StepIndex(pc) > StepIndex(p)

Running(p) == pc = p /\ error = None

Init ==
    /\ pc = "schema"
    /\ error = None
    /\ stdout = <<>>
    /\ input_file \in {[header |-> h, lines |-> l] : h \in Headers, l \in LineChoices}
    /\ col_names = None
    /\ col_types = None
    /\ converted_col_types = None
    /\ df = None
    /\ total_lines = None
    /\ tcp_lines = None
    /\ analyzed_lines = None
    /\ halfduplex_lines = None
    /\ lowercase_lines = None
    /\ uppercase_lines = None
    /\ hist_types = None
    /\ pair_counts = None
    /\ nics_df = None
    /\ num_nics = None
    /\ num_procs = None
    /\ merged_df = None

(***************************************************************************)
(* Schema resolution and loading                                            *)
(***************************************************************************)

type_mapping ==
    [t \in {"time", "string", "bool", "addr", "port", "enum", "interval", "count",
            "set[string]"} |->
        CASE t = "time" -> "datetime64"
          [] t = "string" -> "object"
          [] t = "bool" -> "bool"
          [] t = "addr" -> "object"
          [] t = "port" -> "Int64"
          [] t = "enum" -> "object"
          [] t = "interval" -> "float64"
          [] t = "count" -> "Int64"
          [] t = "set[string]" -> "object"]

\* zip(a, b): pairs up to the end of the shorter sequence.
zip(a, b) == [i \in 1..Min(Len(a), Len(b)) |-> <<a[i], b[i]>>]

\* Lines 34-46: find '#fields', take the next line as the types, build the dtype
\* dictionary.  Without a '#fields' line col_names is never bound (NameError); a
\* declared type outside type_mapping is a KeyError.
ResolveSchema ==
    /\ Running("schema")
    /\ LET h == input_file.header
           pairs == zip(h.names, h.types)
       IN  IF ~h.fields
           THEN /\ error' = "NameError"
                /\ UNCHANGED <<pc, col_names, col_types, converted_col_types>>
           ELSE IF \E i \in DOMAIN pairs : pairs[i][2] \notin DOMAIN type_mapping
           THEN /\ error' = "KeyError"
                /\ col_names' = h.names
                /\ col_types' = h.types
                /\ UNCHANGED <<pc, converted_col_types>>
           ELSE /\ col_names' = h.names
                /\ col_types' = h.types
                /\ converted_col_types' =
                       [c \in {pairs[i][1] : i \in DOMAIN pairs} |->
                           type_mapping[
                               pairs[CHOOSE i \in DOMAIN pairs :
                                        /\ pairs[i][1] = c
                                        /\ \A j \in DOMAIN pairs :
                                               pairs[j][1] = c => j <= i][2]]]
                /\ pc' = "load"
                /\ UNCHANGED error
    /\ UNCHANGED <<stdout, input_file, df, total_lines, tcp_lines, analyzed_lines,
                   halfduplex_lines, lowercase_lines, uppercase_lines,
                   hist_types, pair_counts, nics_df, num_nics, num_procs, merged_df>>

interesting_cols ==
    <<"id.orig_h", "id.orig_p", "id.resp_h", "id.resp_p", "proto", "history",
      "local_orig", "local_resp", "peer">>

IsComment(line) == Len(line) > 0 /\ Len(line[1]) > 0 /\ line[1][1] = "#"

\* A token that read_table cannot turn into a value of the column's dtype:
\* a non-number in an Int64 column, and in a bool column anything but T and F
\* (a missing value included: a bool column cannot hold NA).
BadToken(dtype, tok) ==
    \/ dtype = "Int64" /\ tok # Dash /\ ~IsNumeric(tok)
    \/ dtype = "bool" /\ tok \notin {<<"T">>, <<"F">>}

\* The cell read_table makes of a token: '-' is missing, T and F are the
\* booleans, an Int64 column holds the number.  A column without a declared
\* dtype is inferred, which for the text columns modelled here is object.
ParseToken(dtype, tok) ==
    IF dtype = "bool" THEN tok = <<"T">>
    ELSE IF dtype = "Int64" THEN (IF tok = Dash THEN NA ELSE to_int(tok))
    ELSE IF tok = Dash THEN NaN
    ELSE tok

DTypeOf(col) ==
    IF col \in DOMAIN converted_col_types THEN converted_col_types[col] ELSE "object"

\* A DataFrame is its column labels, its index labels and its rows, each row a
\* function from column label to cell.

\* Boolean-mask row selection, df.loc[mask]: the rows whose mask is True, with
\* their index labels, in order.  A mask is a sequence of booleans, one per row.
loc(frame, mask) ==
    LET at == SelectSeq([i \in DOMAIN frame.rows |-> i], LAMBDA i : mask[i])
    IN  [columns |-> frame.columns,
         index |-> [k \in DOMAIN at |-> frame.index[at[k]]],
         rows |-> [k \in DOMAIN at |-> frame.rows[at[k]]]]

\* df.drop(columns=cols).
drop(frame, cols) ==
    LET left == SelectSeq(frame.columns, LAMBDA c : c \notin cols)
    IN  [columns |-> left,
         index |-> frame.index,
         rows |-> [i \in DOMAIN frame.rows |-> [c \in Range(left) |-> frame.rows[i][c]]]]

\* df[col] = values: the column is added (or replaced) cell by cell; values
\* holds one cell per row.
assign(frame, col, values) ==
    [columns |-> IF col \in Range(frame.columns) THEN frame.columns
                 ELSE frame.columns \o <<col>>,
     index |-> frame.index,
     rows |-> [i \in DOMAIN frame.rows |->
                  [c \in Range(frame.columns) \cup {col} |->
                      IF c = col THEN values[i] ELSE frame.rows[i][c]]]]

\* df.shape: (number of rows, number of columns).
shape(frame) == <<Len(frame.index), Len(frame.columns)>>

\* Lines 48-54: read_table over the lines after the eight skipped ones, comment
\* lines left out, the nine interesting columns kept; then total_lines.
LoadRecords ==
    /\ Running("load")
    /\ LET data == SelectSeq(input_file.lines, LAMBDA l : ~IsComment(l))
           pos(c) == CHOOSE i \in 1..Len(col_names) : col_names[i] = c
           bad == \E i \in DOMAIN data : \E c \in Range(interesting_cols) :
                      BadToken(DTypeOf(c), data[i][pos(c)])
           table == [columns |-> interesting_cols,
                     index |-> [i \in DOMAIN data |-> i - 1],
                     rows |-> [i \in DOMAIN data |->
                                  [c \in Range(interesting_cols) |->
                                      ParseToken(DTypeOf(c), data[i][pos(c)])]]]
       IN  IF ~(Range(interesting_cols) \subseteq Range(col_names)) \/ bad
           THEN /\ error' = "ValueError"
                /\ UNCHANGED <<pc, df, total_lines>>
           ELSE /\ df' = table
                /\ total_lines' = shape(table)[1]
                /\ pc' = "tcp"
                /\ UNCHANGED error
    /\ UNCHANGED <<stdout, input_file, col_names, col_types, converted_col_types,
                   tcp_lines, analyzed_lines, halfduplex_lines, lowercase_lines,
                   uppercase_lines,
                   hist_types, pair_counts, nics_df, num_nics, num_procs, merged_df>>

(***************************************************************************)
(* The filtering funnel                                                     *)
(***************************************************************************)

\* print(text.format(*args)): one more line of output.
print(out, text, args) == Append(out, [text |-> text, args |-> args])

\* A Python int, and the float a true division yields (kept as the fraction).
PyInt(n) == [type |-> "int", value |-> n]

\* numerator / denominator: elementwise on a DataFrame, a float otherwise.
truediv(numerator, denominator) ==
    IF numerator.type = "DataFrame"
    THEN [numerator EXCEPT !.cell =
             [k \in DOMAIN numerator.cell |->
                 [type |-> "float", num |-> numerator.cell[k], den |-> denominator]]]
    ELSE [type |-> "float", num |-> numerator.value, den |-> denominator]

\* Lines 21-22.
zero_division_ok(numerator, denominator) ==
    IF denominator # 0 THEN truediv(numerator, denominator) ELSE PyInt(0)

\* Lines 58-60: keep only TCP, and drop the protocol column.
KeepTcp(frame) ==
    drop(loc(frame, [i \in DOMAIN frame.rows |-> frame.rows[i]["proto"] = Tcp]),
         {"proto"})

\* Faulty variant of is_local: one local endpoint is enough.
is_local_either(row) == row["local_orig"] = TRUE \/ row["local_resp"] = TRUE

\* Line 63, the mask: both endpoints are in the local address space.
is_local(row) == row["local_orig"] = TRUE /\ row["local_resp"] = TRUE

\* Faulty variant of KeepLocal: tcp_lines is read from the other axis of df.shape.
KeepLocal_axis1(frame) ==
    LET kept == drop(loc(frame, [i \in DOMAIN frame.rows |-> is_local(frame.rows[i])]),
                     {"local_orig", "local_resp"})
    IN  [df |-> kept, tcp_lines |-> shape(kept)[2]]

\* Lines 62-66: keep the local connections, drop the locality columns, count.
KeepLocal(frame) ==
    LET kept == drop(loc(frame, [i \in DOMAIN frame.rows |-> is_local(frame.rows[i])]),
                     {"local_orig", "local_resp"})
    IN  [df |-> kept, tcp_lines |-> shape(kept)[1]]

\* Lines 68-69: Series.str.lstrip('^'); a missing history stays missing.
StripHistory(frame) ==
    assign(frame, "history",
           [i \in DOMAIN frame.rows |->
               IF isna(frame.rows[i]["history"]) THEN NaN
               ELSE lstrip(frame.rows[i]["history"], "^")])

\* Lines 71-74: keep the histories longer than one character (NaN > 1 is False).
KeepMultiChar(frame) ==
    LET kept == loc(frame, [i \in DOMAIN frame.rows |->
                               /\ ~isna(frame.rows[i]["history"])
                               /\ Len(frame.rows[i]["history"]) > 1])
    IN  [df |-> kept, analyzed_lines |-> shape(kept)[1]]

\* Faulty variant of is_halfduplex: any history with a cased letter passes.
is_halfduplex_cased(h) == \E i \in 1..Len(h) : IsUpperChar(h[i]) \/ IsLowerChar(h[i])

\* Line 76, the mask.
is_halfduplex(h) == isupper(h) \/ islower(h)

\* Lines 76-78.
KeepHalfDuplex(frame) ==
    LET kept == loc(frame, [i \in DOMAIN frame.rows |->
                               is_halfduplex(frame.rows[i]["history"])])
    IN  [df |-> kept, halfduplex_lines |-> shape(kept)[1]]

FilterTcp ==
    /\ Running("tcp")
    /\ df' = KeepTcp(df)
    /\ pc' = "local"
    /\ UNCHANGED <<error, stdout, input_file, col_names, col_types,
                   converted_col_types, total_lines, tcp_lines, analyzed_lines,
                   halfduplex_lines, lowercase_lines, uppercase_lines,
                   hist_types, pair_counts, nics_df, num_nics, num_procs, merged_df>>

FilterLocal ==
    /\ Running("local")
    /\ df' = KeepLocal(df).df
    /\ tcp_lines' = KeepLocal(df).tcp_lines
    /\ pc' = "strip"
    /\ UNCHANGED <<error, stdout, input_file, col_names, col_types,
                   converted_col_types, total_lines, analyzed_lines,
                   halfduplex_lines, lowercase_lines, uppercase_lines,
                   hist_types, pair_counts, nics_df, num_nics, num_procs, merged_df>>

StripCaret ==
    /\ Running("strip")
    /\ df' = StripHistory(df)
    /\ pc' = "length"
    /\ UNCHANGED <<error, stdout, input_file, col_names, col_types,
                   converted_col_types, total_lines, tcp_lines, analyzed_lines,
                   halfduplex_lines, lowercase_lines, uppercase_lines,
                   hist_types, pair_counts, nics_df, num_nics, num_procs, merged_df>>

FilterLength ==
    /\ Running("length")
    /\ df' = KeepMultiChar(df).df
    /\ analyzed_lines' = KeepMultiChar(df).analyzed_lines
    /\ pc' = "halfduplex"
    /\ UNCHANGED <<error, stdout, input_file, col_names, col_types,
                   converted_col_types, total_lines, tcp_lines, halfduplex_lines,
                   lowercase_lines, uppercase_lines,
                   hist_types, pair_counts, nics_df, num_nics, num_procs, merged_df>>

\* Lines 76-88: the half-duplex filter and the summary.
FilterHalfDuplex ==
    /\ Running("halfduplex")
    /\ LET r == KeepHalfDuplex(df)
           hd == r.halfduplex_lines
       IN  /\ df' = r.df
           /\ halfduplex_lines' = hd
           /\ stdout' =
                  print(print(print(print(print(stdout,
                      "Summary:", <<>>),
                      "* {:,} total conns", <<total_lines>>),
                      "* {:,} total local orig/local resp TCP conns", <<tcp_lines>>),
                      "* {:,} local TCP conns with history, {:.1%} of the total (analyzed conns)",
                      <<analyzed_lines,
                        zero_division_ok(PyInt(analyzed_lines), total_lines)>>),
                      "* {:,} half-duplex conns, {:.1%} of the analyzed conns and {:.1%} of the total conns",
                      <<hd, zero_division_ok(PyInt(hd), analyzed_lines),
                        zero_division_ok(PyInt(hd), total_lines)>>)
    /\ pc' = "split"
    /\ UNCHANGED <<error, input_file, col_names, col_types, converted_col_types,
                   total_lines, tcp_lines, analyzed_lines, lowercase_lines,
                   uppercase_lines,
                   hist_types, pair_counts, nics_df, num_nics, num_procs, merged_df>>

\* Lines 90-100: the lowercase/uppercase split and the assertion on it.
SplitCase ==
    /\ Running("split")
    /\ LET lower == shape(loc(df, [i \in DOMAIN df.rows |->
                                      islower(df.rows[i]["history"])]))[1]
           upper == shape(loc(df, [i \in DOMAIN df.rows |->
                                      isupper(df.rows[i]["history"])]))[1]
       IN  /\ lowercase_lines' = lower
           /\ uppercase_lines' = upper
           /\ stdout' =
                  print(stdout,
                        "* {} ({:.1%}) of these are lowercase, and {} ({:.1%}) are uppercase",
                        <<lower, zero_division_ok(PyInt(lower), halfduplex_lines),
                          upper, zero_division_ok(PyInt(upper), halfduplex_lines)>>)
           /\ IF halfduplex_lines = lower + upper
              THEN pc' = "rank" /\ UNCHANGED error
              ELSE error' = "AssertionError" /\ UNCHANGED pc
    /\ UNCHANGED <<input_file, col_names, col_types, converted_col_types, df,
                   total_lines, tcp_lines, analyzed_lines, halfduplex_lines,
                   hist_types, pair_counts, nics_df, num_nics, num_procs, merged_df>>

(***************************************************************************)
(* Rankings                                                                 *)
(***************************************************************************)

\* The cells of one column, in row order.
column(frame, col) == [i \in DOMAIN frame.rows |-> frame.rows[i][col]]

Occurrences(values, v) == Cardinality({i \in DOMAIN values : values[i] = v})

\* The distinct values of a sequence in the order of their first occurrence.
RECURSIVE unique(_)
unique(values) ==
    IF Len(values) = 0 THEN <<>>
    ELSE LET init == SubSeq(values, 1, Len(values) - 1)
             last == values[Len(values)]
         IN  IF last \in Range(init) THEN unique(init) ELSE unique(init) \o <<last>>

\* The keys by falling count, equal counts in the order given.
RECURSIVE by_count(_, _)
by_count(keys, values) ==
    IF Len(keys) = 0 THEN <<>>
    ELSE LET top == CHOOSE i \in DOMAIN keys :
                        /\ \A j \in DOMAIN keys :
                               Occurrences(values, keys[j]) <= Occurrences(values, keys[i])
                        /\ \A j \in 1..(i - 1) :
                               Occurrences(values, keys[j]) < Occurrences(values, keys[i])
         IN  <<keys[top]>> \o
             by_count(SelectSeq(keys, LAMBDA k : k # keys[top]), values)

\* Series.value_counts() with the normalize=True column beside it, cut by
\* head(n=10): one entry per distinct value, most frequent first.
value_counts(values) ==
    LET ranked == by_count(unique(values), values)
    IN  [i \in 1..Min(10, Len(ranked)) |->
            [key |-> ranked[i],
             count |-> Occurrences(values, ranked[i]),
             freq |-> [type |-> "float", num |-> Occurrences(values, ranked[i]),
                       den |-> Len(values)]]]

join(a, sep, b) == a \o <<sep>> \o b

\* Lines 109-111: the two addresses, the smaller first.
ip_pair(row) ==
    IF StrLess(row["id.orig_h"], row["id.resp_h"])
    THEN join(row["id.orig_h"], "-", row["id.resp_h"])
    ELSE join(row["id.resp_h"], "-", row["id.orig_h"])

HasNaN(frame, cols) ==
    \E i \in DOMAIN frame.rows : \E c \in cols : isna(frame.rows[i][c])

\* Lines 102-119: the top history types and the top address pairs.  Over a
\* frame without rows DataFrame.apply(axis=1) hands back a frame, not a column;
\* whether assigning it to one column raises is the pandas release's choice, so
\* both outcomes are kept.  A missing address cannot be compared or joined.
RankHistories ==
    /\ Running("rank")
    /\ \E raises \in BOOLEAN :
         IF Len(df.rows) = 0 /\ raises
         THEN /\ error' = "ValueError"
              /\ hist_types' = value_counts(column(df, "history"))
              /\ stdout' = print(stdout, "Top ten half-duplex history types:", <<>>)
              /\ UNCHANGED <<pc, pair_counts>>
         ELSE IF HasNaN(df, {"id.orig_h", "id.resp_h"})
         THEN /\ error' = "TypeError"
              /\ hist_types' = value_counts(column(df, "history"))
              /\ stdout' = print(stdout, "Top ten half-duplex history types:", <<>>)
              /\ UNCHANGED <<pc, pair_counts>>
         ELSE LET hist == value_counts(column(df, "history"))
                  pairs == value_counts(column(
                               assign(df, "ip_pair",
                                      [i \in DOMAIN df.rows |-> ip_pair(df.rows[i])]),
                               "ip_pair"))
              IN  /\ hist_types' = hist
                  /\ pair_counts' = pairs
                  /\ stdout' =
                         print(print(print(print(stdout,
                             "Top ten half-duplex history types:", <<>>),
                             "* {} - {:,} ({:.1%})", hist),
                             "Top IP address pairs:", <<>>),
                             "* {} and {} - {:,} ({:.1%})",
                             [i \in DOMAIN pairs |->
                                 [first |-> split(pairs[i].key, "-")[1],
                                  second |-> split(pairs[i].key, "-")[2],
                                  count |-> pairs[i].count,
                                  freq |-> pairs[i].freq]])
                  /\ pc' = "crosstab"
                  /\ UNCHANGED error
    /\ UNCHANGED <<input_file, col_names, col_types, converted_col_types, df,
                   total_lines, tcp_lines, analyzed_lines, halfduplex_lines,
                   lowercase_lines, uppercase_lines, nics_df, num_nics, num_procs,
                   merged_df>>

(***************************************************************************)
(* The NIC x process table                                                  *)
(***************************************************************************)

\* The unstacked table: its row labels, its column labels, and the cells that
\* hold a number; a (row, column) pair outside DOMAIN cell is a NaN cell.

RECURSIVE SortStr(_)
SortStr(S) ==
    IF S = {} THEN <<>>
    ELSE LET least == CHOOSE x \in S : \A y \in S \ {x} : StrLess(x, y)
         IN  <<least>> \o SortStr(S \ {least})

RECURSIVE SortNat(_)
SortNat(S) ==
    IF S = {} THEN <<>>
    ELSE LET least == CHOOSE x \in S : \A y \in S : x <= y
         IN  <<least>> \o SortNat(S \ {least})

RECURSIVE Sum(_, _)
Sum(f, S) ==
    IF S = {} THEN 0
    ELSE LET k == CHOOSE x \in S : TRUE IN f[k] + Sum(f, S \ {k})

Total == <<"T", "o", "t", "a", "l">>

\* Faulty variant of count: the distinct values of the group (nunique()).
nunique(cells) == Cardinality({cells[i] : i \in {j \in DOMAIN cells : ~isna(cells[j])}})

\* SeriesGroupBy.count(): the cells of the group that are not missing.
count(cells) == Cardinality({i \in DOMAIN cells : ~isna(cells[i])})

\* Line 128: df.groupby(['nic', 'process'])['history'].count().unstack(); the
\* groups are sorted by key, processes as numbers.
groupby_count_unstack(frame) ==
    LET nics == SortStr(Range(column(frame, "nic")))
        procs == SortNat(Range(column(frame, "process")))
        group(n, p) ==
            column(loc(frame, [i \in DOMAIN frame.rows |->
                                  /\ frame.rows[i]["nic"] = n
                                  /\ frame.rows[i]["process"] = p]),
                   "history")
        seen == {<<n, p>> \in Range(nics) \X Range(procs) : Len(group(n, p)) > 0}
    IN  [type |-> "DataFrame",
         index |-> nics,
         columns |-> [i \in DOMAIN procs |-> NatToStr(procs[i])],
         cell |-> [k \in {<<k[1], NatToStr(k[2])>> : k \in seen} |->
                      count(group(k[1], to_int(k[2])))]]

\* Line 129: nics_df['Total'] = nics_df.sum(axis=1); sum() skips NaN cells.
with_total(table) ==
    LET rowsum(r) == Sum(table.cell, {k \in DOMAIN table.cell : k[1] = r})
    IN  [type |-> "DataFrame",
         index |-> table.index,
         columns |-> table.columns \o <<Total>>,
         cell |-> [k \in DOMAIN table.cell \cup {<<r, Total>> : r \in Range(table.index)} |->
                      IF k[2] = Total THEN rowsum(k[1]) ELSE table.cell[k]]]

\* DataFrame.T.
T(table) ==
    [type |-> "DataFrame",
     index |-> table.columns,
     columns |-> table.index,
     cell |-> [k \in {<<j[2], j[1]>> : j \in DOMAIN table.cell} |-> table.cell[<<k[2], k[1]>>]]]

\* DataFrame.fillna(value).
fillna(table, value) ==
    [table EXCEPT !.cell =
        [k \in Range(table.index) \X Range(table.columns) |->
            IF k \in DOMAIN table.cell THEN table.cell[k] ELSE value]]

\* Faulty variant of wider_than_long: the comparison also fires on a square table.
wider_or_square(rows, cols) == rows <= cols

\* Line 133: the table is wider than it is long.
wider_than_long(rows, cols) == rows < cols

\* Lines 121-125 can raise: a missing peer has no split(), a peer with fewer
\* than three fields has no index 1 or 2, a process that is no number cannot
\* be converted.
PeerError(frame) ==
    IF HasNaN(frame, {"peer"}) THEN "AttributeError"
    ELSE IF \E i \in DOMAIN frame.rows : Len(split(frame.rows[i]["peer"], "-")) < 3
    THEN "IndexError"
    ELSE IF \E i \in DOMAIN frame.rows : ~IsNumeric(split(frame.rows[i]["peer"], "-")[3])
    THEN "ValueError"
    ELSE None

\* Lines 121-139.  Over a frame without rows the two apply() assignments are
\* again the pandas release's choice between raising and an empty column.
CrossTabulate ==
    /\ Running("crosstab")
    /\ \E raises \in BOOLEAN :
         IF Len(df.rows) = 0 /\ raises
         THEN /\ error' = "ValueError"
              /\ UNCHANGED <<pc, df, nics_df, num_nics, num_procs>>
         ELSE IF PeerError(df) # None
         THEN /\ error' = PeerError(df)
              /\ UNCHANGED <<pc, df, nics_df, num_nics, num_procs>>
         ELSE LET with_nic ==
                      assign(df, "nic",
                             [i \in DOMAIN df.rows |-> split(df.rows[i]["peer"], "-")[2]])
                  with_process ==
                      assign(with_nic, "process",
                             [i \in DOMAIN df.rows |->
                                 to_int(split(df.rows[i]["peer"], "-")[3])])
                  table == with_total(groupby_count_unstack(with_process))
              IN  /\ df' = with_process
                  /\ num_nics' = shape(table)[1]
                  /\ num_procs' = shape(table)[2]
                  /\ nics_df' =
                         fillna(IF wider_than_long(shape(table)[1], shape(table)[2])
                                THEN T(table) ELSE table, 0)
                  /\ pc' = "tables"
                  /\ UNCHANGED error
    /\ UNCHANGED <<stdout, input_file, col_names, col_types, converted_col_types,
                   total_lines, tcp_lines, analyzed_lines, halfduplex_lines,
                   lowercase_lines, uppercase_lines, hist_types, pair_counts,
                   merged_df>>

\* Lines 141-152: the count table, the percentage table and the averages.
\* zero_division_ok hands back the int 0 for a zero denominator, and an int has
\* no fillna().
PrintTables ==
    /\ Running("tables")
    /\ LET counts ==
               print(print(print(print(stdout,
                   "Half-duplex connections by NIC and process (count):", <<>>),
                   "tabulate", nics_df),
                   "Evenly spaced average by process is {:,.1f}",
                   <<zero_division_ok(PyInt(halfduplex_lines), num_nics * num_procs)>>),
                   "Evenly spaced average by NIC is {:,.1f}",
                   <<zero_division_ok(PyInt(halfduplex_lines), num_nics)>>)
           percent == zero_division_ok(nics_df, halfduplex_lines)
       IN  IF percent.type # "DataFrame"
           THEN /\ error' = "AttributeError"
                /\ stdout' = counts
                /\ UNCHANGED <<pc, nics_df>>
           ELSE /\ nics_df' = percent
                /\ stdout' =
                       print(print(print(print(counts,
                           "Half-duplex connections by NIC and process (percentage):", <<>>),
                           "tabulate", percent),
                           "Evenly spaced average by process is {:,.1%}",
                           <<zero_division_ok(PyInt(1), num_nics * num_procs)>>),
                           "Evenly spaced average by NIC is {:,.1%}",
                           <<zero_division_ok(PyInt(1), num_nics)>>)
                /\ pc' = "pair"
                /\ UNCHANGED error
    /\ UNCHANGED <<input_file, col_names, col_types, converted_col_types, df,
                   total_lines, tcp_lines, analyzed_lines, halfduplex_lines,
                   lowercase_lines, uppercase_lines, hist_types, pair_counts,
                   num_nics, num_procs, merged_df>>

(***************************************************************************)
(* Flow pairing                                                             *)
(***************************************************************************)

\* Lines 161-162: srcIP/srcPort-dstIP/dstPort.
conn_id(row) ==
    join(join(row["id.orig_h"], "/", str(row["id.orig_p"])), "-",
         join(row["id.resp_h"], "/", str(row["id.resp_p"])))

\* Lines 166-167: dstIP/dstPort-srcIP/srcPort.
reverse_id(row) ==
    join(join(row["id.resp_h"], "/", str(row["id.resp_p"])), "-",
         join(row["id.orig_h"], "/", str(row["id.orig_p"])))

\* Line 171: the identifier both legs of a flow share.
flow_id(row) ==
    IF StrLess(row["conn_id"], row["reverse_id"]) THEN row["conn_id"]
    ELSE row["reverse_id"]

\* Line 175: pd.merge(left, right, left_on=.., right_on=..), an inner join.  A
\* joined row holds the left row's columns (suffix _x) as x and the right row's
\* (suffix _y) as y.
merge(left, right, left_on, right_on) ==
    LET hits == {<<i, j>> \in (DOMAIN left.rows) \X (DOMAIN right.rows) :
                    left.rows[i][left_on] = right.rows[j][right_on]}
        ordered == SelectSeq(
            [n \in 1..(Len(left.rows) * Len(right.rows)) |->
                <<((n - 1) \div Len(right.rows)) + 1, ((n - 1) % Len(right.rows)) + 1>>],
            LAMBDA h : h \in hits)
    IN  [columns |-> <<"x", "y">>,
         index |-> [n \in DOMAIN ordered |-> n - 1],
         rows |-> [n \in DOMAIN ordered |->
                      [x |-> left.rows[ordered[n][1]], y |-> right.rows[ordered[n][2]],
                       left_index |-> left.index[ordered[n][1]],
                       right_index |-> right.index[ordered[n][2]]]]]

\* Lines 158-189.
PairFlows ==
    /\ Running("pair")
    /\ LET plain == drop(df, {"nic", "process"})
           with_conn ==
               assign(plain, "conn_id",
                      [i \in DOMAIN plain.rows |-> conn_id(plain.rows[i])])
           with_reverse ==
               assign(with_conn, "reverse_id",
                      [i \in DOMAIN plain.rows |-> reverse_id(plain.rows[i])])
           ids == assign(with_reverse, "flow_id",
                         [i \in DOMAIN plain.rows |-> flow_id(with_reverse.rows[i])])
           joined == merge(ids, ids, "conn_id", "reverse_id")
           kept == loc(joined, [i \in DOMAIN joined.rows |->
                                   joined.rows[i].x["conn_id"] = joined.rows[i].x["flow_id"]])
           both == shape(kept)[1] * 2
           hist == value_counts([i \in DOMAIN kept.rows |-> kept.rows[i].x["history"]])
       IN  /\ df' = ids
           /\ merged_df' = kept
           /\ hist_types' = hist
           /\ stdout' =
                  print(print(print(print(stdout,
                      "Half-duplex connections with presumably both sides seen separately:",
                      <<>>),
                      "* {} ({:.1%}) connections",
                      <<both, zero_division_ok(PyInt(both), halfduplex_lines)>>),
                      "* Top ten history types for conns with both sides seen:", <<>>),
                      "  * {} - {:,} ({:.1%})", hist)
    /\ pc' = "done"
    /\ UNCHANGED <<error, input_file, col_names, col_types, converted_col_types,
                   total_lines, tcp_lines, analyzed_lines, halfduplex_lines,
                   lowercase_lines, uppercase_lines, pair_counts, nics_df, num_nics,
                   num_procs>>

Next ==
    \/ ResolveSchema
    \/ LoadRecords
    \/ FilterTcp
    \/ FilterLocal
    \/ StripCaret
    \/ FilterLength
    \/ FilterHalfDuplex
    \/ SplitCase
    \/ RankHistories
    \/ CrossTabulate
    \/ PrintTables
    \/ PairFlows

Spec == Init /\ [][Next]_vars

(***************************************************************************)
(* Properties                                                               *)
(***************************************************************************)

\* The data lines of the input file, as read_table sees them.
Data == SelectSeq(input_file.lines, LAMBDA l : ~IsComment(l))

\* The number of '^' characters a text begins with.
RECURSIVE LeadingCarets(_)
LeadingCarets(s) ==
    IF Len(s) > 0 /\ s[1] = "^" THEN 1 + LeadingCarets(Tail(s)) ELSE 0

\* The history token of the data line a row of df was read from.
TokenOf(i, col) ==
    Data[df.index[i] + 1][CHOOSE k \in DOMAIN FieldNames : FieldNames[k] = col]

\* The data lines that are TCP, and those that are TCP with both endpoints local.
TcpData == {i \in DOMAIN Data : Data[i][5] = Tcp}

LocalTcpData == {i \in TcpData : Data[i][7] = <<"T">> /\ Data[i][8] = <<"T">>}

\* The split counts have been computed (the assertion may have failed on them).
SplitComputed == Passed("split") \/ (pc = "split" /\ error = "AssertionError")

\* The table is transposed: the Total label is a row label.
Transposed == Total \in Range(nics_df.index)

DistinctNics == Cardinality(Range(column(df, "nic")))

DistinctProcs == Cardinality(Range(column(df, "process")))

\* The retained join rows made of the candidates with index labels a and b.
Retained(a, b) ==
    {n \in DOMAIN merged_df.rows :
        /\ merged_df.rows[n].left_index = a
        /\ merged_df.rows[n].right_index = b}

\* C1: of the two join results (A,B) and (B,A) of two mirror legs A and B,
\* exactly one is retained.
C1_OneJoinRowPerMirrorPair ==
    Passed("pair") =>
        \A i, j \in DOMAIN df.rows :
            (i # j /\ df.rows[i]["conn_id"] = df.rows[j]["reverse_id"]) =>
                Cardinality(Retained(df.index[i], df.index[j])
                            \cup Retained(df.index[j], df.index[i])) = 1

\* C2: with halfduplex_lines = 0 the run raises nothing; stated from the NIC x
\* process tables on (lines 141-152), the sections the claim names last.
C2_ZeroCandidatesPrintTables ==
    (Passed("crosstab") /\ halfduplex_lines = 0) => error = None

\* C3: the all-lowercase and the all-uppercase candidates partition the
\* candidates: halfduplex_lines = lowercase_lines + uppercase_lines, so the
\* assertion of line 100 holds.
C3_CasePartition ==
    SplitComputed =>
        /\ halfduplex_lines = lowercase_lines + uppercase_lines
        /\ error # "AssertionError"

\* C3 witness: candidates of both cases are counted after a mixed-case history
\* was left out.
C3_Witness ==
    /\ Passed("split")
    /\ lowercase_lines > 0
    /\ uppercase_lines > 0
    /\ halfduplex_lines < analyzed_lines

\* The cells of the count table outside the Total row or column.
CountCells == {k \in DOMAIN nics_df.cell : k[1] # Total /\ k[2] # Total}

\* C4: the cells of the count table over all (nic, process) combinations, the
\* Total column left out, sum to halfduplex_lines, transposed or not, with the
\* missing combinations filled with 0.
C4_CellsSumToCandidates ==
    pc = "tables" => Sum(nics_df.cell, CountCells) = halfduplex_lines

\* C4 witness: a table of several candidates with a combination filled with 0.
C4_Witness ==
    /\ pc = "tables"
    /\ halfduplex_lines >= 2
    /\ \E k \in CountCells : nics_df.cell[k] = 0
    /\ \E k \in CountCells : nics_df.cell[k] >= 2

\* C5: a '#fields' line and a '#types' line with different numbers of tokens
\* make schema resolution fail.
C5_TokenCountMismatchIsFatal ==
    (input_file.header.fields
        /\ Len(input_file.header.names) # Len(input_file.header.types))
    => ~Passed("schema")

\* C6: the funnel counts do not increase from stage to stage.
C6_FunnelMonotone ==
    /\ Passed("local") => tcp_lines <= total_lines
    /\ Passed("length") => analyzed_lines <= tcp_lines
    /\ Passed("halfduplex") => halfduplex_lines <= analyzed_lines

\* C6 witness: every stage has dropped a record.
C6_Witness ==
    /\ Passed("halfduplex")
    /\ halfduplex_lines < analyzed_lines
    /\ analyzed_lines < tcp_lines
    /\ tcp_lines < total_lines

\* C7 as stated: the table is transposed exactly when there are strictly fewer
\* distinct NIC values than distinct process values.
C7_TransposedIffFewerNics ==
    (pc = "tables" /\ Len(df.rows) > 0) => (Transposed <=> DistinctNics < DistinctProcs)

\* C7 as amended: the table is transposed exactly when the distinct NIC values
\* are at most as many as the distinct process values, that is strictly fewer
\* than the columns with the Total column counted.
C7_TransposedIffNotMoreNics ==
    (pc = "tables" /\ Len(df.rows) > 0) => (Transposed <=> DistinctNics <= DistinctProcs)

\* C7 witness: as many NIC values as process values, and the table transposed.
C7_Witness ==
    /\ pc = "tables"
    /\ Len(df.rows) > 0
    /\ DistinctNics = DistinctProcs
    /\ Transposed

\* C8 as stated: tcp_lines is the number of input records whose protocol is tcp.
C8_TcpLinesCountsTcp ==
    Passed("local") => tcp_lines = Cardinality(TcpData)

\* C8 as amended: tcp_lines is the number of input records whose protocol is
\* tcp and whose two locality flags are true (the count after stage 2).
C8_TcpLinesCountsLocalTcp ==
    Passed("local") => tcp_lines = Cardinality(LocalTcpData)

\* C8 witness: a TCP record with a non-local endpoint is left out of tcp_lines.
C8_Witness ==
    /\ Passed("local")
    /\ tcp_lines >= 1
    /\ tcp_lines < Cardinality(TcpData)

\* C9 as stated: a history that began with k >= 1 carets leaves stage 3 with
\* k - 1 of them, any other history unchanged.
C9_StripsOneCaret ==
    pc = "length" =>
        \A i \in DOMAIN df.rows :
            LET tok == TokenOf(i, "history")
            IN  tok # Dash =>
                    df.rows[i]["history"] =
                        (IF LeadingCarets(tok) >= 1 THEN Tail(tok) ELSE tok)

\* C9 as amended: a history leaves stage 3 without any of its leading carets,
\* a history without one (or a missing history) unchanged, and stage 4 keeps
\* the records whose history is longer than one character after that.
C9_StripsEveryCaret ==
    /\ pc = "length" =>
           \A i \in DOMAIN df.rows :
               LET tok == TokenOf(i, "history")
               IN  IF tok = Dash THEN isna(df.rows[i]["history"])
                   ELSE df.rows[i]["history"] =
                            SubSeq(tok, LeadingCarets(tok) + 1, Len(tok))
    /\ Passed("length") =>
           analyzed_lines =
               Cardinality({i \in LocalTcpData :
                               /\ Data[i][6] # Dash
                               /\ Len(Data[i][6]) - LeadingCarets(Data[i][6]) > 1})

\* C9 witness: a history that began with two carets has gone through stage 3.
C9_Witness ==
    /\ pc = "length"
    /\ error = None
    /\ \E i \in DOMAIN df.rows :
           /\ TokenOf(i, "history") # Dash
           /\ LeadingCarets(TokenOf(i, "history")) >= 2
           /\ Len(df.rows[i]["history"]) >= 2

\* C10: the reported number of paired connections, twice the retained join
\* rows, is at most halfduplex_lines.
C10_PairedAtMostCandidates ==
    Passed("pair") => 2 * shape(merged_df)[1] <= halfduplex_lines

====
